---- MODULE Spec2Model ----
(***************************************************************************)
(* Model of email_flagger/classifier.py: configuration merge, snippet      *)
(* extraction, score parsing, threshold classification and the            *)
(* orchestration of one invocation.                                        *)
(*                                                                         *)
(* Conventions.  Text is a sequence of one-character strings.  Scores and  *)
(* thresholds are integers counting hundredths (85.50 is 8550), so that    *)
(* "blue_min - 0.01" is blue_min - 1.  A JSON value is a record            *)
(* [tag, n, s, m]: a number (tag "num", value n), a string-like non-map    *)
(* value (tag "str", value s) or a map (tag "map", m a function from keys  *)
(* to values).  An operation that can raise returns the outcome "raise".   *)
(***************************************************************************)
EXTENDS Integers, Sequences, FiniteSets, TLC

VARIABLES
    pc,         \* position of the operation under way
    score,      \* the care score (hundredths), -100 is the sentinel -1
    config,     \* the settings map handed to the pipeline stages
    tier,       \* the classification returned
    reply,      \* what the model endpoint answers: [kind, text]
    sent,       \* the requests passed to requests.post so far
    dflt,       \* deep_merge_config: the default map
    override,   \* deep_merge_config: the override map
    merged,     \* deep_merge_config: the map returned
    file,       \* the message file at the path given: [exists, readable, msg]
    extracted,  \* what extract_snippet returned: [raised, sender, text]
    body,       \* extract_snippet's local "body" when it returned
    caller,     \* who runs the pipeline: "main" or "api" (a direct call
                \* of classify_message_file, as the tests make)
    argv,       \* main: whether a file path was given on the command line
    return_score,   \* classify_message_file's return_score argument
    cfgFile,    \* the config file: [kind, override]
    log,        \* the lines appended to the log file
    log_failed, \* whether a log write has failed (the file could not be
                \* opened or written)
    stdout,     \* the lines printed on standard output
    exc,        \* the exception that left the pipeline, "none" if none
    result,     \* what classify_message_file returned: [pair, tier, score]
    calls       \* the earlier calls of classify_message_file the caller
                \* made with the same arguments: what each extracted,
                \* was answered and returned

mainVars ==
    <<caller, argv, return_score, cfgFile, log, log_failed, stdout, exc, result,
      calls>>

vars == <<pc, score, config, tier, reply, sent, dflt, override, merged,
          file, extracted, body, mainVars>>

(***************************************************************************)
(* JSON-like values                                                        *)
(***************************************************************************)
EmptyMap == [k \in {} |-> 0]

Num(n) == [tag |-> "num", n |-> n, s |-> "", m |-> EmptyMap]

Str(s) == [tag |-> "str", n |-> 0, s |-> s, m |-> EmptyMap]

Map(f) == [tag |-> "map", n |-> 0, s |-> "", m |-> f]

IsDict(v) == v.tag = "map"

IsNum(v) == v.tag = "num"

\* dict.get(key, default) on a value known to be a map
Get(d, key, default) == IF key \in DOMAIN d.m THEN d.m[key] ELSE default

\* the map f with key k set to v
Put(f, k, v) == [j \in DOMAIN f \cup {k} |-> IF j = k THEN v ELSE f[j]]

(***************************************************************************)
(* Text                                                                    *)
(***************************************************************************)
\* the characters str.strip() removes
Whitespace == {" ", "\n"}

\* [0-9] of the score pattern
AsciiDigits == {"0", "1", "2", "3", "4", "5", "6", "7", "8", "9"}

\* the characters the pattern's \b counts as word characters
WordChars == AsciiDigits \cup {"x", "H", "i", "b", "t", "h", "e", "r", "_"}

DigitVal(c) ==
    CASE c = "0" -> 0 [] c = "1" -> 1 [] c = "2" -> 2 [] c = "3" -> 3
      [] c = "4" -> 4 [] c = "5" -> 5 [] c = "6" -> 6 [] c = "7" -> 7
      [] c = "8" -> 8 [] c = "9" -> 9

\* t[:n]
Take(t, n) == SubSeq(t, 1, IF n < Len(t) THEN n ELSE Len(t))

RECURSIVE LStrip(_)
LStrip(t) ==
    IF t # <<>> /\ Head(t) \in Whitespace THEN LStrip(Tail(t)) ELSE t

RECURSIVE RStrip(_)
RStrip(t) ==
    IF t # <<>> /\ t[Len(t)] \in Whitespace
    THEN RStrip(SubSeq(t, 1, Len(t) - 1)) ELSE t

\* variant: only leading whitespace is removed
strip_left_only(t) == LStrip(t)

\* str.strip()
Strip(t) == RStrip(LStrip(t))

(***************************************************************************)
(* get_classification_for_score                                            *)
(***************************************************************************)
\* the sentinel -1 of query_ollama, in hundredths
Sentinel == -100

DefaultRedMin == 8000

DefaultBlueMin == 6000

\* variant: the "score < 0" guard is missing
classification_without_negative_guard(s, cfg) ==
    LET scoring == Get(cfg, "scoring", Map(EmptyMap)) IN
    IF ~IsDict(scoring) THEN "raise"
    ELSE LET red_min == Get(scoring, "red_min", Num(DefaultRedMin))
             blue_min == Get(scoring, "blue_min", Num(DefaultBlueMin))
         IN  IF ~IsNum(red_min) THEN "raise"
             ELSE IF s >= red_min.n THEN "red"
             ELSE IF ~IsNum(blue_min) THEN "raise"
             ELSE IF s >= blue_min.n THEN "blue"
             ELSE "none"

\* variant: the thresholds are exclusive (> instead of >=)
classification_exclusive(s, cfg) ==
    IF s < 0 THEN "none"
    ELSE LET scoring == Get(cfg, "scoring", Map(EmptyMap)) IN
         IF ~IsDict(scoring) THEN "raise"
         ELSE LET red_min == Get(scoring, "red_min", Num(DefaultRedMin))
                  blue_min == Get(scoring, "blue_min", Num(DefaultBlueMin))
              IN  IF ~IsNum(red_min) THEN "raise"
                  ELSE IF s > red_min.n THEN "red"
                  ELSE IF ~IsNum(blue_min) THEN "raise"
                  ELSE IF s > blue_min.n THEN "blue"
                  ELSE "none"

\* "red", "blue" or "none"; "raise" when a threshold cannot be compared with
\* a number or "scoring" is not a map (AttributeError / TypeError)
get_classification_for_score(s, cfg) ==
    IF s < 0 THEN "none"
    ELSE LET scoring == Get(cfg, "scoring", Map(EmptyMap)) IN
         IF ~IsDict(scoring) THEN "raise"
         ELSE LET red_min == Get(scoring, "red_min", Num(DefaultRedMin))
                  blue_min == Get(scoring, "blue_min", Num(DefaultBlueMin))
              IN  IF ~IsNum(red_min) THEN "raise"
                  ELSE IF s >= red_min.n THEN "red"
                  ELSE IF ~IsNum(blue_min) THEN "raise"
                  ELSE IF s >= blue_min.n THEN "blue"
                  ELSE "none"

(***************************************************************************)
(* query_ollama                                                            *)
(***************************************************************************)
\* position i (1-based) holds a word character
WordAt(t, i) == i >= 1 /\ i <= Len(t) /\ t[i] \in WordChars

\* the pattern's \b just before position i
Boundary(t, i) == WordAt(t, i - 1) # WordAt(t, i)

DigitAt(t, i) == i >= 1 /\ i <= Len(t) /\ t[i] \in AsciiDigits

DotAt(t, i) == i >= 1 /\ i <= Len(t) /\ t[i] = "."

\* [0-9]{n}\.\d{2}\b tried at position i, n leading digits
DecimalAt(t, i, n) ==
    /\ \A j \in i .. (i + n - 1) : DigitAt(t, j)
    /\ DotAt(t, i + n)
    /\ DigitAt(t, i + n + 1)
    /\ DigitAt(t, i + n + 2)
    /\ Boundary(t, i + n + 3)

\* 100\.00\b tried at position i
HundredAt(t, i) ==
    /\ i + 5 <= Len(t)
    /\ SubSeq(t, i, i + 5) = <<"1", "0", "0", ".", "0", "0">>
    /\ Boundary(t, i + 6)

\* variant: the pattern without its two \b anchors
match_len_unanchored(t, i) ==
    IF i + 5 <= Len(t) /\ SubSeq(t, i, i + 5) = <<"1", "0", "0", ".", "0", "0">>
    THEN 6
    ELSE IF /\ DigitAt(t, i) /\ DigitAt(t, i + 1) /\ DotAt(t, i + 2)
            /\ DigitAt(t, i + 3) /\ DigitAt(t, i + 4) THEN 5
    ELSE IF /\ DigitAt(t, i) /\ DotAt(t, i + 1)
            /\ DigitAt(t, i + 2) /\ DigitAt(t, i + 3) THEN 4
    ELSE 0

\* length of the match of \b(?:100\.00|[0-9]{1,2}\.\d{2})\b that starts at
\* position i, 0 when there is none; the alternatives in the order the
\* regex engine tries them (100.00, two leading digits, one leading digit)
MatchLen(t, i) ==
    IF ~Boundary(t, i) THEN 0
    ELSE IF HundredAt(t, i) THEN 6
    ELSE IF DecimalAt(t, i, 2) THEN 5
    ELSE IF DecimalAt(t, i, 1) THEN 4
    ELSE 0

\* re.search: the leftmost position from i on with a match, 0 when none
RECURSIVE Search(_, _)
Search(t, i) ==
    IF i > Len(t) THEN 0
    ELSE IF MatchLen(t, i) > 0 THEN i
    ELSE Search(t, i + 1)

\* float(match.group(0)) in hundredths; w is the matched text
FloatOf(w) ==
    IF Len(w) = 6 THEN 10000
    ELSE IF Len(w) = 5
    THEN DigitVal(w[1]) * 1000 + DigitVal(w[2]) * 100
            + DigitVal(w[4]) * 10 + DigitVal(w[5])
    ELSE DigitVal(w[1]) * 100 + DigitVal(w[3]) * 10 + DigitVal(w[4])

\* the second try block of query_ollama on a successful HTTP reply:
\* rep.kind is "badjson" (resp.json() raises), "noresponse" (no "response"
\* field), "nontext" (a "response" that is no string) or "text"
parse_reply(rep) ==
    IF rep.kind # "text" THEN Sentinel
    ELSE LET t == Strip(rep.text)
             i == Search(t, 1)
         IN  IF i = 0 THEN Sentinel
             ELSE FloatOf(SubSeq(t, i, i + MatchLen(t, i) - 1))

\* variant: a nested "temperature" is kept and the top-level one only
\* fills the gap
request_options_nested_wins(ollama_config) ==
    LET options == Get(ollama_config, "options", Map(EmptyMap)).m IN
    IF "temperature" \in DOMAIN ollama_config.m
       /\ "temperature" \notin DOMAIN options
    THEN Put(options, "temperature", ollama_config.m["temperature"])
    ELSE options

\* the options map sent: ollama.options with ollama.temperature folded in
request_options(ollama_config) ==
    LET options == Get(ollama_config, "options", Map(EmptyMap)).m IN
    IF "temperature" \in DOMAIN ollama_config.m
    THEN Put(options, "temperature", ollama_config.m["temperature"])
    ELSE options

\* the request passed to requests.post
request_of(prompt, cfg) ==
    LET ollama_config == Get(cfg, "ollama", Map(EmptyMap))
        options == request_options(ollama_config)
    IN  [endpoint |-> Get(ollama_config, "endpoint", Str("http://localhost:11434")),
         timeout |-> Get(ollama_config, "timeout", Num(60)),
         model |-> Get(ollama_config, "model", Str("llama3")),
         prompt |-> prompt,
         stream |-> FALSE,
         options |-> IF options # EmptyMap THEN <<Map(options)>> ELSE <<>>]

\* the settings make query_ollama raise before the request is sent:
\* "ollama" is no map, "options" is no map, or "endpoint" is no string
query_config_raises(cfg) ==
    LET ollama_config == Get(cfg, "ollama", Map(EmptyMap)) IN
    \/ ~IsDict(ollama_config)
    \/ ~IsDict(Get(ollama_config, "options", Map(EmptyMap)))
    \/ Get(ollama_config, "endpoint", Str("http://localhost:11434")).tag # "str"

\* query_ollama: [raised, score, posted]; posted is the sequence of
\* requests sent.  rep.kind "error" is a network error, a timeout or a
\* non-success status.
query_ollama(prompt, cfg, rep) ==
    IF query_config_raises(cfg)
    THEN [raised |-> TRUE, score |-> Sentinel, posted |-> <<>>]
    ELSE [raised |-> FALSE,
          score |-> IF rep.kind = "error" THEN Sentinel ELSE parse_reply(rep),
          posted |-> <<request_of(prompt, cfg)>>]

\* variant: line 97 without ".copy()", so that the write of line 102 lands
\* in the configured options map
config_after_query_shared(cfg) ==
    LET ollama_config == Get(cfg, "ollama", Map(EmptyMap)) IN
    IF /\ ~query_config_raises(cfg)
       /\ "options" \in DOMAIN ollama_config.m
       /\ "temperature" \in DOMAIN ollama_config.m
    THEN Map(Put(cfg.m, "ollama",
                 Map(Put(ollama_config.m, "options",
                         Map(request_options(ollama_config))))))
    ELSE cfg

\* the settings object as query_ollama leaves it: the only write, line 102,
\* goes to "options", which line 97 made a copy of the configured map, so
\* the object the caller passed keeps its value
config_after_query(cfg) == cfg

(***************************************************************************)
(* extract_snippet                                                         *)
(*                                                                         *)
(* A header is [kind, text]: "absent", "text" (decodes to text) or "bad"   *)
(* (decode_header / make_header raises, e.g. an unknown charset or broken  *)
(* base64 in an encoded word).  A part is [ctype, payload, charset_ok];    *)
(* charset_ok = FALSE is a declared charset that bytes.decode does not     *)
(* know (LookupError).  A message is [sender, subject, multipart, root,    *)
(* parts]: root is the top-level part, parts the parts msg.walk() yields   *)
(* after it, in its depth-first order ("other" stands for containers and   *)
(* attachments).                                                           *)
(***************************************************************************)
NoSubject == <<"(", "n", "o", " ", "s", "u", "b", "j", "e", "c", "t", ")">>

UnknownSender == <<"(", "u", "n", "k", "n", "o", "w", "n", ")">>

\* config.get("max_bytes", 2048)
DefaultMaxBytes == 2048

Blank(t) == Strip(t) = <<>>

\* t[:n] for any integer n (a negative n counts from the end)
SliceTo(t, n) ==
    IF n >= 0 THEN Take(t, n)
    ELSE IF Len(t) + n > 0 THEN SubSeq(t, 1, Len(t) + n) ELSE <<>>

\* the end of the match of '<[^<]+?>' that starts at i, 0 when there is
\* none: "<", then the fewest (at least one) characters other than "<",
\* then ">"
TagEnd(t, i) ==
    IF i > Len(t) \/ t[i] # "<" THEN 0
    ELSE LET ends == {j \in (i + 2) .. Len(t) :
                        /\ t[j] = ">"
                        /\ \A k \in (i + 1) .. (j - 1) : t[k] # "<"}
         IN  IF ends = {} THEN 0
             ELSE CHOOSE j \in ends : \A k \in ends : j <= k

\* re.sub('<[^<]+?>', '', t) from position i on: one left-to-right pass
RECURSIVE StripTagsFrom(_, _)
StripTagsFrom(t, i) ==
    IF i > Len(t) THEN <<>>
    ELSE IF TagEnd(t, i) > 0 THEN StripTagsFrom(t, TagEnd(t, i) + 1)
    ELSE <<t[i]>> \o StripTagsFrom(t, i + 1)

StripTags(t) == StripTagsFrom(t, 1)

\* the loop "for part in msg.walk(): if part.get_content_type() == ctype":
\* the index of the first part of that type whose payload decodes (a part
\* whose decoding raises is skipped by "continue"), 0 when there is none.
\* The root of a multipart message is a container and never matches.
FirstDecodable(parts, ctype) ==
    LET hits == {i \in 1 .. Len(parts) :
                    parts[i].ctype = ctype /\ parts[i].charset_ok}
    IN  IF hits = {} THEN 0 ELSE CHOOSE i \in hits : \A j \in hits : i <= j

\* lines 163-181: the text/plain pass, or the direct payload of a message
\* that is not multipart (whatever its content type)
plain_body(msg) ==
    IF msg.multipart
    THEN LET i == FirstDecodable(msg.parts, "text/plain")
         IN  IF i = 0 THEN <<>> ELSE msg.parts[i].payload
    ELSE IF msg.root.payload # <<>> /\ msg.root.charset_ok
         THEN msg.root.payload
         ELSE <<>>

\* variant: a message that is not multipart and of type text/html is left
\* to the HTML passes
plain_body_by_type(msg) ==
    IF msg.multipart
    THEN LET i == FirstDecodable(msg.parts, "text/plain")
         IN  IF i = 0 THEN <<>> ELSE msg.parts[i].payload
    ELSE IF /\ msg.root.payload # <<>> /\ msg.root.charset_ok
            /\ msg.root.ctype # "text/html"
         THEN msg.root.payload
         ELSE <<>>

\* lines 162-205: the local "body" at line 207
select_body(msg) ==
    LET b1 == plain_body(msg)
        i == FirstDecodable(msg.parts, "text/html")
        b2 == IF Blank(b1) /\ msg.multipart /\ i # 0
              THEN StripTags(msg.parts[i].payload)
              ELSE b1
    IN  IF /\ Blank(b2) /\ ~msg.multipart /\ msg.root.ctype = "text/html"
           /\ msg.root.charset_ok
        THEN StripTags(msg.root.payload)
        ELSE b2

\* str(make_header(decode_header(msg.get(name, placeholder))))
header_text(h, placeholder) == IF h.kind = "absent" THEN placeholder ELSE h.text

\* (subject + "\n" + body).strip()
full_text(subject, b) == Strip(subject \o <<"\n">> \o b)

\* variant: the slice keeps one character too many
truncate_off_by_one(t, mb) == SliceTo(t, mb + 1)

\* [:max_bytes]
truncate(t, mb) == SliceTo(t, mb)

\* extract_snippet: [raised, sender, text, body].  An unreadable or
\* unparseable file gives ("", ""); a header that cannot be decoded or a
\* max_bytes that is no integer raises.
extract_snippet(f, cfg) ==
    LET max_bytes == Get(cfg, "max_bytes", Num(DefaultMaxBytes))
        raise == [raised |-> TRUE, sender |-> <<>>, text |-> <<>>, body |-> <<>>]
    IN  IF ~f.readable
        THEN [raised |-> FALSE, sender |-> <<>>, text |-> <<>>, body |-> <<>>]
        ELSE IF f.msg.sender.kind = "bad" \/ f.msg.subject.kind = "bad"
        THEN raise
        ELSE IF ~IsNum(max_bytes) THEN raise
        ELSE LET b == select_body(f.msg)
                 subject == header_text(f.msg.subject, NoSubject)
             IN  [raised |-> FALSE,
                  sender |-> header_text(f.msg.sender, UnknownSender),
                  text |-> truncate(full_text(subject, b), max_bytes.n),
                  body |-> b]

(***************************************************************************)
(* build_personal_context, the prompt and the structured log entry         *)
(***************************************************************************)
\* Python truthiness of a JSON value
Truthy(v) ==
    CASE v.tag = "num" -> v.n # 0
      [] v.tag = "str" -> v.s # ""
      [] v.tag = "map" -> v.m # EmptyMap

\* "The recipient is {name}." followed by the instructions when there are
\* any
build_personal_context(cfg) ==
    LET llm_instructions == Get(cfg, "llm_instructions", Str("")) IN
    [name |-> Get(cfg, "name", Str("User")),
     instructions |-> IF Truthy(llm_instructions)
                      THEN <<llm_instructions>> ELSE <<>>]

\* prompt_template.format(extract=..., personal_context=..., sender=...)
build_prompt(sender, snippet, cfg) ==
    [personal_context |-> build_personal_context(cfg),
     sender |-> sender,
     extract |-> snippet]

\* subject_preview is cut to 200 characters
PreviewLen == 200

\* snippet.split("\n", 1)[0]
FirstLine(t) ==
    LET nl == {i \in 1 .. Len(t) : t[i] = "\n"} IN
    IF nl = {} THEN t
    ELSE SubSeq(t, 1, (CHOOSE i \in nl : \A j \in nl : i <= j) - 1)

NoEntry == [score |-> Sentinel, class |-> "", subject |-> <<>>, from |-> <<>>]

\* an unstructured line of the log
DiagLine(message) == [kind |-> "diag", message |-> message, entry |-> NoEntry]

\* variant: the subject preview is the whole first line
entry_line_uncut(sc, classification, snippet, sender) ==
    [kind |-> "ENTRY", message |-> "",
     entry |-> [score |-> sc, class |-> classification,
                subject |-> FirstLine(snippet),
                from |-> sender]]

\* the "ENTRY {json}" line of the log
EntryLine(sc, classification, snippet, sender) ==
    [kind |-> "ENTRY", message |-> "",
     entry |-> [score |-> sc, class |-> classification,
                subject |-> Take(FirstLine(snippet), PreviewLen),
                from |-> sender]]

(***************************************************************************)
(* deep_merge_config                                                       *)
(***************************************************************************)
\* the recursion cap: "if _depth > 10"
DepthLimit == 10

\* result = default.copy(); result.update(user)
shallow_merge(default, user) ==
    [k \in DOMAIN default \cup DOMAIN user |->
        IF k \in DOMAIN user THEN user[k] ELSE default[k]]

\* variant: the key '__circular__' is not special-cased and the depth is
\* not capped
RECURSIVE deep_merge_uncapped(_, _, _)
deep_merge_uncapped(default, user, depth) ==
    [k \in DOMAIN default \cup DOMAIN user |->
        IF k \notin DOMAIN user THEN default[k]
        ELSE IF k \in DOMAIN default /\ IsDict(default[k]) /\ IsDict(user[k])
        THEN Map(deep_merge_uncapped(default[k].m, user[k].m, depth + 1))
        ELSE user[k]]

\* variant: the test of line 27 is "_depth >= 10", one level early
RECURSIVE deep_merge_capped_early(_, _, _)
deep_merge_capped_early(default, user, depth) ==
    IF depth >= DepthLimit THEN shallow_merge(default, user)
    ELSE [k \in DOMAIN default \cup DOMAIN user |->
            IF k \notin DOMAIN user THEN default[k]
            ELSE IF /\ k \in DOMAIN default
                    /\ IsDict(default[k])
                    /\ IsDict(user[k])
                    /\ k # "__circular__"
            THEN Map(deep_merge_capped_early(default[k].m, user[k].m, depth + 1))
            ELSE user[k]]

\* default and user are maps (functions from keys to values); the map
\* returned
RECURSIVE deep_merge_config(_, _, _)
deep_merge_config(default, user, depth) ==
    IF depth > DepthLimit THEN shallow_merge(default, user)
    ELSE [k \in DOMAIN default \cup DOMAIN user |->
            IF k \notin DOMAIN user THEN default[k]
            ELSE IF /\ k \in DOMAIN default
                    /\ IsDict(default[k])
                    /\ IsDict(user[k])
                    /\ k # "__circular__"
            THEN Map(deep_merge_config(default[k].m, user[k].m, depth + 1))
            ELSE user[k]]

\* the number of "depth limit reached" warnings deep_merge_config logs
RECURSIVE deep_merge_warnings(_, _, _)
deep_merge_warnings(default, user, depth) ==
    IF depth > DepthLimit THEN 1
    ELSE LET nested == {k \in DOMAIN default \cap DOMAIN user :
                          IsDict(default[k]) /\ IsDict(user[k])
                          /\ k # "__circular__"}
             RECURSIVE Sum(_)
             Sum(K) == IF K = {} THEN 0
                       ELSE LET k == CHOOSE x \in K : TRUE
                            IN  deep_merge_warnings(default[k].m, user[k].m,
                                                    depth + 1)
                                + Sum(K \ {k})
         IN  Sum(nested)

\* the deepest _depth with which deep_merge_config is invoked in the course
\* of the call deep_merge_config(default, user, depth)
RECURSIVE merge_depth(_, _, _)
merge_depth(default, user, depth) ==
    IF depth > DepthLimit THEN depth
    ELSE LET nested == {k \in DOMAIN default \cap DOMAIN user :
                          IsDict(default[k]) /\ IsDict(user[k])
                          /\ k # "__circular__"}
             below == {merge_depth(default[k].m, user[k].m, depth + 1) :
                          k \in nested}
         IN  IF below = {} THEN depth
             ELSE CHOOSE x \in below : \A y \in below : y <= x

\* the warning of line 28
DepthWarning ==
    DiagLine("Warning: Config merge depth limit reached, using shallow merge")

(***************************************************************************)
(* Values of the variables a specification does not use                    *)
(***************************************************************************)
NoReply == [kind |-> "error", text |-> <<>>]

IdleQuery == reply = NoReply /\ sent = <<>>

IdleMerge == dflt = EmptyMap /\ override = EmptyMap /\ merged = EmptyMap

NoHeader == [kind |-> "absent", text |-> <<>>]

NoPart == [ctype |-> "other", payload |-> <<>>, charset_ok |-> TRUE]

NoFile ==
    [exists |-> FALSE, readable |-> FALSE,
     msg |-> [sender |-> NoHeader, subject |-> NoHeader, multipart |-> FALSE,
              root |-> NoPart, parts |-> <<>>]]

NotExtracted == [raised |-> FALSE, sender |-> <<>>, text |-> <<>>]

IdleExtract == file = NoFile /\ extracted = NotExtracted /\ body = <<>>

NoConfigFile == [kind |-> "missing", override |-> EmptyMap]

NoResult == [pair |-> FALSE, tier |-> "unset", score |-> Sentinel]

IdleMain ==
    /\ caller = "api" /\ argv = TRUE /\ return_score = FALSE
    /\ cfgFile = NoConfigFile
    /\ log = <<>> /\ log_failed = FALSE /\ stdout = <<>>
    /\ exc = "none" /\ result = NoResult /\ calls = <<>>

(***************************************************************************)
(* Specification of the classifier alone: any score, any ordered pair of   *)
(* thresholds.                                                             *)
(***************************************************************************)
MaxScore == 4

MaxThreshold == 3

Scores == (0 - MaxScore) .. MaxScore

Thresholds == (0 - MaxThreshold) .. MaxThreshold

\* a settings map holding only the two thresholds
ScoringConfig(r, b) ==
    Map(Put(EmptyMap, "scoring",
            Map(Put(Put(EmptyMap, "red_min", Num(r)), "blue_min", Num(b)))))

RedMin == config.m["scoring"].m["red_min"].n

BlueMin == config.m["scoring"].m["blue_min"].n

InitClassify ==
    /\ pc = "classify"
    /\ score \in Scores
    /\ \E r \in Thresholds, b \in Thresholds :
          r >= b /\ config = ScoringConfig(r, b)
    /\ tier = "unset"
    /\ IdleQuery
    /\ IdleMerge
    /\ IdleExtract
    /\ IdleMain

Classify ==
    /\ pc = "classify"
    /\ tier' = get_classification_for_score(score, config)
    /\ pc' = "classified"
    /\ UNCHANGED <<score, config, reply, sent, dflt, override, merged,
                   file, extracted, body, mainVars>>

NextClassify == Classify

SpecClassify == InitClassify /\ [][NextClassify]_vars

\* C1 (as stated): red iff s >= red_min, blue iff blue_min <= s < red_min,
\* none iff s < blue_min or s < 0, for every score and ordered thresholds.
C1_AsStated ==
    pc = "classified" =>
        /\ (tier = "red") <=> (score >= RedMin)
        /\ (tier = "blue") <=> (BlueMin <= score /\ score < RedMin)
        /\ (tier = "none") <=> (score < BlueMin \/ score < 0)

\* C1 (amended): a negative score is always none; a non-negative score is
\* red iff s >= red_min, blue iff blue_min <= s < red_min, none iff
\* s < blue_min.  Hence none iff s < blue_min or s < 0.
C1_Classification ==
    pc = "classified" =>
        /\ (tier = "red") <=> (score >= 0 /\ score >= RedMin)
        /\ (tier = "blue") <=> (score >= 0 /\ BlueMin <= score /\ score < RedMin)
        /\ (tier = "none") <=> (score < BlueMin \/ score < 0)

\* a negative score at or above a negative red_min has been classified none
C1_Witness ==
    pc = "classified" /\ score < 0 /\ score >= RedMin /\ tier = "none"

\* C2 (as stated): score = red_min is red, score = blue_min is blue,
\* score = blue_min - 0.01 is none.
C2_AsStated ==
    pc = "classified" =>
        /\ (score = RedMin => tier = "red")
        /\ (score = BlueMin => tier = "blue")
        /\ (score = BlueMin - 1 => tier = "none")

\* C2 (amended): for non-negative thresholds, score = red_min is red;
\* score = blue_min is blue when blue_min < red_min (and red when the two
\* thresholds coincide); score = blue_min - 0.01 is none for all thresholds.
C2_Boundaries ==
    pc = "classified" =>
        /\ (score = RedMin /\ RedMin >= 0 => tier = "red")
        /\ (score = BlueMin /\ BlueMin >= 0 /\ BlueMin < RedMin => tier = "blue")
        /\ (score = BlueMin /\ BlueMin >= 0 /\ BlueMin = RedMin => tier = "red")
        /\ (score = BlueMin - 1 => tier = "none")

\* a score exactly on a non-negative blue_min below red_min was classified
C2_Witness ==
    pc = "classified" /\ score = BlueMin /\ BlueMin >= 0 /\ BlueMin < RedMin
        /\ tier = "blue"

(***************************************************************************)
(* Specification of the score client alone: any reply of the endpoint.     *)
(***************************************************************************)
MaxReplyLen == 6

ReplyChars == {"0", "1", ".", "x", " "}

ReplyTexts == UNION {[1 .. n -> ReplyChars] : n \in 0 .. MaxReplyLen}

ReplyKinds == {"error", "badjson", "noresponse", "nontext", "text"}

\* the built-in defaults of load_config
default_config ==
    Map([name |-> Str("User"),
         llm_instructions |-> Str("Prioritize work and family emails"),
         ollama |-> Map([model |-> Str("llama3"),
                         endpoint |-> Str("http://localhost:11434"),
                         timeout |-> Num(60),
                         temperature |-> Num(0)]),
         scoring |-> Map([red_min |-> Num(DefaultRedMin),
                          blue_min |-> Num(DefaultBlueMin)]),
         max_bytes |-> Num(2048)])

InitParse ==
    /\ pc = "query"
    /\ score = Sentinel
    /\ config = default_config
    /\ tier = "unset"
    /\ \E k \in ReplyKinds, t \in ReplyTexts :
          /\ (k # "text" => t = <<>>)
          /\ reply = [kind |-> k, text |-> t]
    /\ sent = <<>>
    /\ IdleMerge
    /\ IdleExtract
    /\ IdleMain

Query ==
    /\ pc = "query"
    /\ LET r == query_ollama(<<"p">>, config, reply) IN
          /\ score' = r.score
          /\ sent' = sent \o r.posted
          /\ pc' = IF r.raised THEN "raised" ELSE "queried"
    /\ config' = config_after_query(config)
    /\ UNCHANGED <<tier, reply, dflt, override, merged,
                   file, extracted, body, mainVars>>

ClassifyReply ==
    /\ pc = "queried"
    /\ tier' = get_classification_for_score(score, config)
    /\ pc' = "classified"
    /\ UNCHANGED <<score, config, reply, sent, dflt, override, merged,
                   file, extracted, body, mainVars>>

NextParse == Query \/ ClassifyReply

SpecParse == InitParse /\ [][NextParse]_vars

\* the text at i .. i+n-1 is "100.00" (n = 6), two digits, a point and two
\* digits (n = 5), or one digit, a point and two digits (n = 4)
ShapeAt(t, i, n) ==
    /\ n \in {4, 5, 6} /\ i >= 1 /\ i + n - 1 <= Len(t)
    /\ \A j \in i .. (i + n - 1) :
          IF j = i + n - 3 THEN t[j] = "." ELSE t[j] \in AsciiDigits
    /\ (n = 6 => SubSeq(t, i, i + 5) = <<"1", "0", "0", ".", "0", "0">>)

\* the value, in hundredths, of the number written at i .. i+n-1
ValueAt(t, i, n) ==
    LET D(j) == DigitVal(t[j]) IN
    CASE n = 4 -> D(i) * 100 + D(i + 2) * 10 + D(i + 3)
      [] n = 5 -> D(i) * 1000 + D(i + 1) * 100 + D(i + 3) * 10 + D(i + 4)
      [] n = 6 -> 10000

\* no digit directly before or after i .. i+n-1: the digit counts of the
\* shape are exact
DigitDelimited(t, i, n) == ~DigitAt(t, i - 1) /\ ~DigitAt(t, i + n)

\* no word character (letter, digit, underscore) directly before or after
WordDelimited(t, i, n) == ~WordAt(t, i - 1) /\ ~WordAt(t, i + n)

\* the score the claim gives for reply text t, the admissible substrings
\* being those that satisfy Ok(t, i, n): the value of the leftmost one, the
\* sentinel when there is none
ExpectedScore(t, Ok(_, _, _)) ==
    LET cands == {c \in (1 .. Len(t)) \X {4, 5, 6} :
                      ShapeAt(t, c[1], c[2]) /\ Ok(t, c[1], c[2])}
    IN  IF cands = {} THEN Sentinel
        ELSE LET first == CHOOSE c \in cands : \A d \in cands : c[1] <= d[1]
             IN  ValueAt(t, first[1], first[2])

MaxAtoms == 1

MergeKeys == {"a", "__circular__"}

\* the non-map values of defaults and of overrides, kept apart so that a
\* replaced value shows
DefaultAtoms == {Num(i) : i \in 1 .. MaxAtoms}

UserAtoms == {Num(100 + i) : i \in 1 .. MaxAtoms}

MapsOver(vals) == UNION {[D -> vals] : D \in SUBSET MergeKeys}

NestedMaps(atoms) ==
    MapsOver(atoms \cup {Map(f) : f \in MapsOver(atoms)})

\* m under n single-key maps: {"a": {"a": ... m}}
RECURSIVE Wrap(_, _)
Wrap(n, m) == IF n = 0 THEN m ELSE Put(EmptyMap, "a", Map(Wrap(n - 1, m)))

\* the map held under n levels of key "a"
RECURSIVE Unwrap(_, _)
Unwrap(n, m) == IF n = 0 THEN m ELSE Unwrap(n - 1, m["a"].m)

ChainLengths == {0, DepthLimit, DepthLimit + 1}

InitMerge ==
    /\ pc = "merge"
    /\ score = Sentinel
    /\ config = Map(EmptyMap)
    /\ tier = "unset"
    /\ IdleQuery
    /\ \E d \in NestedMaps(DefaultAtoms), u \in NestedMaps(UserAtoms),
          n \in ChainLengths :
          dflt = Wrap(n, d) /\ override = Wrap(n, u)
    /\ merged = EmptyMap
    /\ IdleExtract
    /\ IdleMain

\* the call deep_merge_config(dflt, override): every invocation beyond the
\* cap writes the warning first; a write that fails raises out of the call
Merge ==
    /\ pc = "merge"
    /\ LET warnings == deep_merge_warnings(dflt, override, 0) IN
          \/ /\ merged' = deep_merge_config(dflt, override, 0)
             /\ log' = log \o [i \in 1 .. warnings |-> DepthWarning]
             /\ pc' = "merged"
             /\ UNCHANGED <<log_failed, exc>>
          \/ /\ warnings > 0
             /\ log_failed' = TRUE
             /\ exc' = "OSError"
             /\ pc' = "raised"
             /\ UNCHANGED <<merged, log>>
    /\ UNCHANGED <<score, config, tier, reply, sent, dflt, override,
                   file, extracted, body, caller, argv, return_score, cfgFile,
                   stdout, result, calls>>

NextMerge == Merge

SpecMerge == InitMerge /\ [][NextMerge]_vars

\* r is the merge of d and u as the claim describes it, d and u being met
\* at nesting level lvl; with "coded", a key named '__circular__' and a key
\* met beyond level DepthLimit are not merged key-wise
RECURSIVE MergedAs(_, _, _, _, _)
MergedAs(d, u, r, lvl, coded) ==
    /\ DOMAIN r = DOMAIN d \cup DOMAIN u
    /\ \A k \in DOMAIN r :
          IF k \notin DOMAIN u THEN r[k] = d[k]
          ELSE IF /\ k \in DOMAIN d /\ IsDict(d[k]) /\ IsDict(u[k])
                  /\ (coded => k # "__circular__" /\ lvl <= DepthLimit)
          THEN /\ IsDict(r[k])
               /\ MergedAs(d[k].m, u[k].m, r[k].m, lvl + 1, coded)
          ELSE r[k] = u[k]

\* C8 (as stated): every default key is present, a key whose default and
\* override values are both maps is merged key-wise recursively, any other
\* overridden key takes the override value, override-only keys are added.
C8_AsStated ==
    pc = "merged" => MergedAs(dflt, override, merged, 0, FALSE)

\* C8 (amended): as stated, except that a key named '__circular__' and any
\* key met at a nesting level beyond 10 takes the override value wholesale
\* even when both values are maps.
C8_DeepMerge ==
    pc = "merged" => MergedAs(dflt, override, merged, 0, TRUE)

\* two maps under the same ordinary key, with different keys inside, were
\* merged key-wise
C8_Witness ==
    /\ pc = "merged"
    /\ "a" \in DOMAIN dflt /\ "a" \in DOMAIN override
    /\ IsDict(dflt["a"]) /\ IsDict(override["a"])
    /\ DOMAIN dflt["a"].m = {"__circular__"} /\ DOMAIN override["a"].m = {"a"}
    /\ DOMAIN merged["a"].m = {"a", "__circular__"}

(***************************************************************************)
(* Specification of extract_snippet alone: any message of up to MaxParts   *)
(* parts, any max_bytes setting.                                           *)
(***************************************************************************)
MaxBodyLen == 2

MaxParts == 2

MaxBytes == 3

HiThere ==
    <<"<", "b", ">", "H", "i", "<", "/", "b", ">", " ", "t", "h", "e", "r", "e">>

BodyChars == {"<", ">", "x", " "}

\* the payloads of a message that is not multipart
RootTexts ==
    UNION {[1 .. n -> BodyChars] : n \in 0 .. MaxBodyLen}
        \cup {HiThere, <<"<", "x", ">", "x">>}

\* the payloads of the parts of a multipart message
PartTexts == {<<" ">>, <<"x">>, HiThere}

RootParts ==
    [ctype : {"text/plain", "text/html", "other"}, payload : RootTexts,
     charset_ok : BOOLEAN]

Parts ==
    [ctype : {"text/plain", "text/html"}, payload : PartTexts,
     charset_ok : BOOLEAN]
        \cup [ctype : {"other"}, payload : PartTexts, charset_ok : {TRUE}]

Container == [ctype |-> "other", payload |-> <<>>, charset_ok |-> TRUE]

Structures ==
    [multipart : {FALSE}, root : RootParts, parts : {<<>>}]
        \cup [multipart : {TRUE}, root : {Container},
              parts : UNION {[1 .. n -> Parts] : n \in 0 .. MaxParts}]

TextHeader(t) == [kind |-> "text", text |-> t]

BadHeader == [kind |-> "bad", text |-> <<>>]

\* (From, Subject) pairs: each header varies while the other is ordinary
HeaderPairs ==
    ({NoHeader, BadHeader, TextHeader(<<"a">>)} \X {TextHeader(<<"s">>)})
        \cup ({TextHeader(<<"a">>)}
                \X {NoHeader, BadHeader, TextHeader(<<>>), TextHeader(<<" ">>)})

\* the settings' max_bytes: absent, a string, or an integer
MaxBytesSettings ==
    {EmptyMap, Put(EmptyMap, "max_bytes", Str("2048"))}
        \cup {Put(EmptyMap, "max_bytes", Num(n)) : n \in -1 .. MaxBytes}

InitExtract ==
    /\ pc = "extract"
    /\ score = Sentinel
    /\ tier = "unset"
    /\ IdleQuery
    /\ IdleMerge
    /\ config \in {Map(c) : c \in MaxBytesSettings}
    /\ \/ file = [NoFile EXCEPT !.exists = TRUE]
       \/ \E h \in HeaderPairs, st \in Structures :
             file = [exists |-> TRUE, readable |-> TRUE,
                     msg |-> [sender |-> h[1], subject |-> h[2],
                              multipart |-> st.multipart, root |-> st.root,
                              parts |-> st.parts]]
    /\ extracted = NotExtracted
    /\ body = <<>>
    /\ IdleMain

Extract ==
    /\ pc = "extract"
    /\ LET r == extract_snippet(file, config) IN
          /\ extracted' = [raised |-> r.raised, sender |-> r.sender,
                           text |-> r.text]
          /\ body' = r.body
          /\ pc' = IF r.raised THEN "raised" ELSE "extracted"
    /\ UNCHANGED <<score, config, tier, reply, sent, dflt, override, merged,
                   file, mainVars>>

NextExtract == Extract

SpecExtract == InitExtract /\ [][NextExtract]_vars

\* the parts of the message in the order of msg.walk(), a message that is
\* not multipart being its own single part
WalkParts == IF file.msg.multipart THEN file.msg.parts ELSE <<file.msg.root>>

\* the indexes of the parts of content type ct whose payload decodes
PartsOfType(ct) ==
    {i \in 1 .. Len(WalkParts) :
        WalkParts[i].ctype = ct /\ WalkParts[i].charset_ok}

FirstOf(S) == CHOOSE i \in S : \A j \in S : i <= j

\* the message's only text body is the HTML "<b>Hi</b> there"
OnlyHtmlHiThere ==
    /\ PartsOfType("text/plain") = {}
    /\ PartsOfType("text/html") # {}
    /\ \A i \in PartsOfType("text/html") : WalkParts[i].payload = HiThere
    /\ \A i \in 1 .. Len(WalkParts) :
          WalkParts[i].ctype = "other" => WalkParts[i].payload = <<>>

\* C9: the body is (a) the first text/plain part, the top-level message
\* counting as that part when it is not multipart, (b) failing that or when
\* it is blank, the first text/html part with its tags stripped, (c) else
\* empty; an HTML-only message "<b>Hi</b> there" gives "Hi there" whether
\* or not it is multipart.
C9_BodySelection ==
    pc = "extracted" /\ file.readable =>
        LET plain == PartsOfType("text/plain")
            html == PartsOfType("text/html")
            a == IF ~file.msg.multipart
                 THEN (IF file.msg.root.charset_ok
                       THEN file.msg.root.payload ELSE <<>>)
                 ELSE (IF plain # {}
                       THEN WalkParts[FirstOf(plain)].payload ELSE <<>>)
        IN  /\ ~Blank(a) /\ ~OnlyHtmlHiThere => body = a
            /\ Blank(a) /\ html # {} =>
                  body = StripTags(WalkParts[FirstOf(html)].payload)
            /\ Blank(a) /\ html = {} => Blank(body)
            /\ OnlyHtmlHiThere =>
                  body = <<"H", "i", " ", "t", "h", "e", "r", "e">>

\* the selection of C9 without its HTML-only example, the top-level
\* message of any type counting as the plain part when it is not multipart
BodySelectionAsCoded ==
    pc = "extracted" /\ file.readable =>
        LET plain == PartsOfType("text/plain")
            html == PartsOfType("text/html")
            a == IF ~file.msg.multipart
                 THEN (IF file.msg.root.charset_ok
                       THEN file.msg.root.payload ELSE <<>>)
                 ELSE (IF plain # {}
                       THEN WalkParts[FirstOf(plain)].payload ELSE <<>>)
        IN  /\ ~Blank(a) => body = a
            /\ Blank(a) /\ html # {} =>
                  body = StripTags(WalkParts[FirstOf(html)].payload)
            /\ Blank(a) /\ html = {} => Blank(body)

\* s without its leading and trailing whitespace: from its first to its
\* last character that is no whitespace
Trimmed(s) ==
    LET keep == {k \in 1 .. Len(s) : s[k] \notin Whitespace} IN
    IF keep = {} THEN <<>>
    ELSE SubSeq(s, CHOOSE i \in keep : \A k \in keep : i <= k,
                   CHOOSE j \in keep : \A k \in keep : k <= j)

MaxBytesSet == Get(config, "max_bytes", Num(DefaultMaxBytes))

SubjectText == header_text(file.msg.subject, NoSubject)

\* C10: for a readable message and a positive max_bytes the text returned
\* is the first max_bytes characters of strip(subject + newline + body): no
\* longer than max_bytes, a prefix of the trimmed string, and empty only
\* when subject and body hold nothing but whitespace; an unreadable or
\* unparseable file gives the empty text.
C10_Truncation ==
    pc = "extracted" /\ IsNum(MaxBytesSet) /\ MaxBytesSet.n > 0 =>
        IF ~file.readable THEN extracted.text = <<>>
        ELSE LET t == Trimmed(SubjectText \o <<"\n">> \o body)
                 n == Len(extracted.text)
             IN  /\ n <= MaxBytesSet.n
                 /\ n <= Len(t)
                 /\ extracted.text = SubSeq(t, 1, n)
                 /\ (n < MaxBytesSet.n => n = Len(t))
                 /\ (n = 0 => Blank(SubjectText) /\ Blank(body))

\* a text longer than max_bytes was cut to max_bytes characters
C10_Witness ==
    /\ pc = "extracted" /\ file.readable
    /\ IsNum(MaxBytesSet) /\ MaxBytesSet.n = 2
    /\ Len(body) > 2
    /\ Len(extracted.text) = 2

(***************************************************************************)
(* Specification of one invocation: main() (load_config, then              *)
(* classify_message_file, then print), or classify_message_file called     *)
(* directly with settings from load_config.  Every write to the log file   *)
(* either succeeds or raises OSError (the directory is missing, the file   *)
(* cannot be opened or written).  The positions cmf_NNN are the lines of   *)
(* classify_message_file.                                                  *)
(***************************************************************************)
\* the overrides a config file holding a JSON object may give
ConfigOverrides ==
    {EmptyMap,
     [scoring |-> Map([red_min |-> Num(9000)])],
     [scoring |-> Map([red_min |-> Str("high")])],
     [scoring |-> Str("strict")],
     [ollama |-> Str("llama3")],
     [ollama |-> Map([options |-> Map([top_p |-> Num(0)]),
                      temperature |-> Num(1)])],
     [max_bytes |-> Str("2048")],
     [max_bytes |-> Num(3)]}

\* the config file: missing, unreadable (open raises), malformed (json.load
\* raises), a JSON value that is no object, or an object
ConfigFiles ==
    [kind : {"missing", "unreadable", "malformed", "nonobject"},
     override : {EmptyMap}]
        \cup [kind : {"object"}, override : ConfigOverrides]

PlainPart(t) == [ctype |-> "text/plain", payload |-> t, charset_ok |-> TRUE]

Message(from, subject, multipart, root, parts) ==
    [sender |-> from, subject |-> subject, multipart |-> multipart,
     root |-> root, parts |-> parts]

\* a subject one character longer than the preview of the log entry
LongSubject == [i \in 1 .. PreviewLen + 1 |-> "s"]

\* the message files the invocation is run on
MessageFiles ==
    {NoFile, [NoFile EXCEPT !.exists = TRUE]}
        \cup {[exists |-> TRUE, readable |-> TRUE, msg |-> m] : m \in
                {Message(TextHeader(<<"a">>), TextHeader(<<"s">>), FALSE,
                         PlainPart(<<"x", "\n", "y", "z">>), <<>>),
                 Message(TextHeader(<<"a">>), TextHeader(<<>>), FALSE,
                         PlainPart(<<" ">>), <<>>),
                 Message(NoHeader, BadHeader, FALSE, PlainPart(<<"x">>), <<>>),
                 Message(TextHeader(<<"a">>), TextHeader(LongSubject), FALSE,
                         PlainPart(<<"x">>), <<>>),
                 Message(TextHeader(<<"a">>), NoHeader, TRUE, Container,
                         <<[ctype |-> "text/html", payload |-> HiThere,
                            charset_ok |-> TRUE]>>)}}

\* what the endpoint answers
EndpointReplies ==
    [kind : {"error", "badjson", "noresponse", "nontext"}, text : {<<>>}]
        \cup [kind : {"text"},
              text : {<<"9", "2", ".", "0", "0">>, <<"6", "0", ".", "0", "0">>,
                      <<"1", "5", ".", "0", "0">>, <<"8", "5">>}]

InitMain ==
    /\ pc = "main"
    /\ score = Sentinel
    /\ tier = "unset"
    /\ config = Map(EmptyMap)
    /\ sent = <<>>
    /\ IdleMerge
    /\ extracted = NotExtracted
    /\ body = <<>>
    /\ caller \in {"main", "api"}
    /\ argv \in BOOLEAN
    /\ return_score \in BOOLEAN
    /\ (caller = "main" => return_score = FALSE)
    /\ (caller = "api" => argv = TRUE)
    /\ cfgFile \in ConfigFiles
    /\ file \in MessageFiles
    /\ reply \in EndpointReplies
    /\ log = <<>> /\ log_failed = FALSE /\ stdout = <<>>
    /\ exc = "none" /\ result = NoResult /\ calls = <<>>

\* log_message(message) succeeded
Logged(line) == log' = Append(log, line) /\ UNCHANGED log_failed

\* log_message(message) raised
LogRaised == log_failed' = TRUE /\ UNCHANGED log

\* an exception leaves the pipeline
Raise(e) == pc' = "raised" /\ exc' = e

\* classify_message_file returns value v to its caller
ReturnTo(v) ==
    /\ result' = v
    /\ pc' = IF caller = "main" THEN "print" ELSE "done"

\* main, lines 288-291: no path on the command line
MainNoPath ==
    /\ pc = "main" /\ caller = "main" /\ ~argv
    /\ \/ /\ Logged(DiagLine("Error: No file path provided to script."))
          /\ stdout' = Append(stdout, "none")
          /\ pc' = "done"
          /\ UNCHANGED exc
       \/ LogRaised /\ Raise("OSError") /\ UNCHANGED stdout
    /\ UNCHANGED <<score, config, tier, reply, sent, dflt, override, merged,
                   file, extracted, body, caller, argv, return_score, cfgFile,
                   calls,
                   result>>

\* load_config, lines 44-73 (called by main at line 294, by the tests
\* before they call classify_message_file)
LoadConfig ==
    /\ pc = "main" /\ (caller = "api" \/ argv)
    /\ \/ /\ cfgFile.kind = "object"
          /\ config' = Map(deep_merge_config(default_config.m, cfgFile.override, 0))
          /\ pc' = "cmf_212"
          /\ UNCHANGED <<log, log_failed, exc>>
       \/ /\ cfgFile.kind = "missing"
          /\ Logged(DiagLine("Config file not found, using defaults"))
          /\ config' = default_config
          /\ pc' = "cmf_212"
          /\ UNCHANGED exc
       \/ \* the handler of "except Exception": open or json.load raised,
          \* user_config has no items(), or the write at line 69 raised
          /\ cfgFile.kind # "object"
          /\ \/ /\ log' = Append(log, DiagLine("Error loading config, using defaults"))
                /\ log_failed' = (log_failed \/ cfgFile.kind = "missing")
                /\ config' = default_config
                /\ pc' = "cmf_212"
                /\ UNCHANGED exc
             \/ LogRaised /\ Raise("OSError") /\ UNCHANGED config
    /\ UNCHANGED <<score, tier, reply, sent, dflt, override, merged,
                   file, extracted, body, caller, argv, return_score, cfgFile,
                   calls,
                   stdout, result>>

\* the position after each unguarded diagnostic write of
\* classify_message_file (lines 212, 213, 225, 226, 260, 279)
AfterLog ==
    [cmf_212 |-> "cmf_213", cmf_213 |-> "cmf_216", cmf_225 |-> "cmf_226",
     cmf_226 |-> "cmf_259", cmf_260 |-> "cmf_262", cmf_279 |-> "cmf_281"]

LogDiagnostic ==
    /\ pc \in DOMAIN AfterLog
    /\ \/ Logged(DiagLine(pc)) /\ pc' = AfterLog[pc] /\ UNCHANGED exc
       \/ LogRaised /\ Raise("OSError")
    /\ UNCHANGED <<score, config, tier, reply, sent, dflt, override, merged,
                   file, extracted, body, caller, argv, return_score, cfgFile,
                   calls,
                   stdout, result>>

\* lines 215-216
CheckPath ==
    /\ pc = "cmf_216"
    /\ pc' = IF file.exists THEN "cmf_220" ELSE "cmf_217"
    /\ UNCHANGED <<score, config, tier, reply, sent, dflt, override, merged,
                   file, extracted, body, mainVars>>

\* lines 217-218 and 222-223: the early returns of "none"
ReturnNone ==
    /\ pc \in {"cmf_217", "cmf_222"}
    /\ \/ /\ Logged(DiagLine(pc))
          /\ ReturnTo([pair |-> FALSE, tier |-> "none", score |-> Sentinel])
          /\ UNCHANGED exc
       \/ LogRaised /\ Raise("OSError") /\ UNCHANGED result
    /\ UNCHANGED <<score, config, tier, reply, sent, dflt, override, merged,
                   file, extracted, body, caller, argv, return_score, cfgFile,
                   calls,
                   stdout>>

\* lines 220-221
ExtractSnippet ==
    /\ pc = "cmf_220"
    /\ LET r == extract_snippet(file, config) IN
          IF r.raised
          THEN /\ Raise(IF "bad" \in {file.msg.sender.kind, file.msg.subject.kind}
                        THEN "HeaderError" ELSE "TypeError")
               /\ UNCHANGED <<extracted, body>>
          ELSE /\ extracted' = [raised |-> FALSE, sender |-> r.sender,
                                text |-> r.text]
               /\ body' = r.body
               /\ pc' = IF r.text = <<>> THEN "cmf_222" ELSE "cmf_225"
               /\ UNCHANGED exc
    /\ UNCHANGED <<score, config, tier, reply, sent, dflt, override, merged,
                   file, caller, argv, return_score, cfgFile, calls, log,
                   log_failed,
                   stdout, result>>

\* lines 229-259
QueryOllama ==
    /\ pc = "cmf_259"
    /\ LET r == query_ollama(build_prompt(extracted.sender, extracted.text, config),
                             config, reply)
       IN  IF r.raised
           THEN Raise("TypeError") /\ UNCHANGED <<score, sent>>
           ELSE /\ score' = r.score
                /\ sent' = sent \o r.posted
                /\ pc' = "cmf_260"
                /\ UNCHANGED exc
    /\ config' = config_after_query(config)
    /\ UNCHANGED <<tier, reply, dflt, override, merged,
                   file, extracted, body, caller, argv, return_score, cfgFile,
                   calls, log, log_failed, stdout, result>>

\* line 262
ClassifyScore ==
    /\ pc = "cmf_262"
    /\ LET c == get_classification_for_score(score, config) IN
          IF c = "raise"
          THEN Raise("TypeError") /\ UNCHANGED tier
          ELSE tier' = c /\ pc' = "cmf_275" /\ UNCHANGED exc
    /\ UNCHANGED <<score, config, reply, sent, dflt, override, merged,
                   file, extracted, body, caller, argv, return_score, cfgFile,
                   calls,
                   log, log_failed, stdout, result>>

\* lines 265-277: the structured entry, written inside try/except
LogEntry ==
    /\ pc = "cmf_275"
    /\ \/ Logged(EntryLine(score, tier, extracted.text, extracted.sender))
       \/ LogRaised
    /\ pc' = "cmf_279"
    /\ UNCHANGED <<score, config, tier, reply, sent, dflt, override, merged,
                   file, extracted, body, caller, argv, return_score, cfgFile,
                   calls,
                   stdout, exc, result>>

\* lines 281-284
Return ==
    /\ pc = "cmf_281"
    /\ ReturnTo([pair |-> return_score, tier |-> tier, score |-> score])
    /\ UNCHANGED <<score, config, tier, reply, sent, dflt, override, merged,
                   file, extracted, body, caller, argv, return_score, cfgFile,
                   calls,
                   log, log_failed, stdout, exc>>

\* main, line 298
PrintResult ==
    /\ pc = "print"
    /\ stdout' = Append(stdout, result.tier)
    /\ pc' = "done"
    /\ UNCHANGED <<score, config, tier, reply, sent, dflt, override, merged,
                   file, extracted, body, caller, argv, return_score, cfgFile,
                   calls,
                   log, log_failed, exc, result>>

NextMain ==
    \/ MainNoPath
    \/ LoadConfig
    \/ LogDiagnostic
    \/ CheckPath
    \/ ReturnNone
    \/ ExtractSnippet
    \/ QueryOllama
    \/ ClassifyScore
    \/ LogEntry
    \/ Return
    \/ PrintResult

SpecMain == InitMain /\ [][NextMain]_vars

Ended == pc \in {"done", "raised"}

\* load_config has returned, so classify_message_file has been called
Invoked == config # Map(EmptyMap)

\* the invocation of classify_message_file is over (returned or raised)
InvocationOver == Invoked /\ pc \in {"print", "done", "raised"}

\* what extract_snippet gives for the file and the settings at hand
Extraction == extract_snippet(file, config)

ExtractionEmpty == ~Extraction.raised /\ Extraction.text = <<>>

ExtractionNonEmpty == ~Extraction.raised /\ Extraction.text # <<>>

\* C4: in one invocation of classify_message_file the endpoint is contacted
\* zero times when the path does not exist or the extraction is empty (and
\* the call returns no-flag), exactly once otherwise, and never twice.
C4_ContactedOnce ==
    /\ Len(sent) <= 1
    /\ InvocationOver /\ (~file.exists \/ ExtractionEmpty) =>
          Len(sent) = 0 /\ (pc # "raised" => result.tier = "none")
    /\ InvocationOver /\ file.exists /\ ExtractionNonEmpty => Len(sent) = 1

\* the part of C4 that rests on no other failure: no second request is
\* ever sent, none is sent for a missing path or an empty extraction, and
\* an invocation that returns on any other input has sent exactly one
RequestAtMostOnce ==
    /\ Len(sent) <= 1
    /\ InvocationOver /\ pc # "raised" =>
          IF ~file.exists \/ ExtractionEmpty
          THEN Len(sent) = 0 /\ result.tier = "none"
          ELSE Len(sent) = 1

\* an input-related failure: the file is missing, unreadable or
\* unparseable, a header cannot be decoded, or the extracted text is empty
InputFailure ==
    \/ ~file.exists
    \/ ~file.readable
    \/ "bad" \in {file.msg.sender.kind, file.msg.subject.kind}
    \/ (Invoked /\ ExtractionEmpty)

\* a model-related failure: the endpoint is unreachable, times out or
\* answers a non-success status, malformed JSON or no parsable score
ModelFailure == reply.kind = "error" \/ parse_reply(reply) = Sentinel

\* C5: on every input-related and model-related failure the pipeline does
\* not raise: it returns no-flag, and main prints exactly one of "red",
\* "blue", "none" and nothing else.  (Stated for the runs in which every
\* log write succeeded and no setting is ill-typed, so that only the input
\* and the model decide.)
C5_NeverRaises ==
    ~log_failed /\ exc # "TypeError" =>
        /\ exc = "none"
        /\ (pc = "done" /\ caller = "main" =>
               stdout \in {<<"red">>, <<"blue">>, <<"none">>})
        /\ (pc = "done" /\ (InputFailure \/ ModelFailure) =>
               result.tier \in {"none", "unset"}
               /\ (caller = "main" => stdout = <<"none">>))

\* the settings load_config returns when every log write succeeds
ExpectedConfig ==
    IF cfgFile.kind = "object"
    THEN Map(deep_merge_config(default_config.m, cfgFile.override, 0))
    ELSE default_config

\* the tier the invocation returns when every log write succeeds
ExpectedTier ==
    LET e == extract_snippet(file, ExpectedConfig)
        q == query_ollama(<<>>, ExpectedConfig, reply)
    IN  IF ~file.exists \/ e.text = <<>> THEN "none"
        ELSE get_classification_for_score(q.score, ExpectedConfig)

\* C6: a failed log write, whichever it is, is swallowed: no exception
\* escapes and the invocation returns and prints the classification it
\* would have produced had every log write succeeded.
C6_LogFailureSwallowed ==
    log_failed =>
        /\ exc # "OSError"
        /\ (pc = "done" /\ (caller = "api" \/ argv) =>
               result.tier = ExpectedTier)
        /\ (pc = "done" /\ caller = "main" => Len(stdout) = 1)

\* the one log write whose failure is swallowed: after a failed ENTRY
\* write the invocation goes on
EntryFailureSwallowed ==
    [][pc = "cmf_275" => pc' = "cmf_279" /\ exc' = "none"]_vars

\* C7: load_config always succeeds (a missing, unreadable or malformed
\* config file gives the defaults, nothing is raised), and the settings it
\* returns never make a later stage of the pipeline fail.
C7_ConfigNeverFails ==
    /\ ~(pc = "raised" /\ ~Invoked /\ (caller = "api" \/ argv))
    /\ (Invoked /\ cfgFile.kind # "object" => config = default_config)
    /\ exc # "TypeError"

\* the merge made by load_config starts from default_config, whose maps
\* nest one level: it never reaches the recursion cap and logs no warning
LoadConfigMergeWithinCap ==
    cfgFile.kind = "object" =>
        deep_merge_warnings(default_config.m, cfgFile.override, 0) = 0

(***************************************************************************)
(* Specification of two successive calls of classify_message_file on the   *)
(* same path with the same settings object, as the tests make them         *)
(* (test_deterministic_when_temperature_zero): the second call starts      *)
(* when the first has returned; the endpoint answers each request as it    *)
(* likes.                                                                  *)
(***************************************************************************)
InitTwice == InitMain /\ caller = "api"

\* what the caller keeps of a call that has returned
CallRecord ==
    [extracted |-> extracted, reply |-> reply, score |-> score,
     tier |-> tier, result |-> result]

\* the second call: fresh locals, the same file, settings object and log
CallAgain ==
    /\ pc = "done" /\ caller = "api" /\ calls = <<>>
    /\ calls' = <<CallRecord>>
    /\ reply' \in EndpointReplies
    /\ pc' = "cmf_212"
    /\ score' = Sentinel /\ tier' = "unset"
    /\ extracted' = NotExtracted /\ body' = <<>>
    /\ result' = NoResult
    /\ UNCHANGED <<config, sent, dflt, override, merged, file, caller, argv,
                   return_score, cfgFile, log, log_failed, stdout, exc>>

NextTwice ==
    \/ LoadConfig
    \/ LogDiagnostic
    \/ CheckPath
    \/ ReturnNone
    \/ ExtractSnippet
    \/ QueryOllama
    \/ ClassifyScore
    \/ LogEntry
    \/ Return
    \/ CallAgain

SpecTwice == InitTwice /\ [][NextTwice]_vars

\* the positions of classify_message_file after extract_snippet returned
AfterExtraction ==
    {"cmf_222", "cmf_225", "cmf_226", "cmf_259", "cmf_260", "cmf_262",
     "cmf_275", "cmf_279", "cmf_281"}

\* the call under way is the second one
SecondCall == calls # <<>>

Returned == pc \in {"print", "done"} /\ result # NoResult

\* it returned from line 218 or line 223
ReturnedEarly == Returned /\ (~file.exists \/ ExtractionEmpty)

\* C12: with return_score=True every return path gives a (tier, score)
\* pair, the missing file and the empty extraction included; with
\* return_score=False every path gives the tier alone.
C12_PairOnEveryPath ==
    Returned => result.pair = return_score

\* the paths that keep to C12: the return of lines 281-284 gives the pair
\* exactly when it is asked for, and the early returns give the bare tier
\* whatever was asked
ReturnShapeAsCoded ==
    /\ Returned /\ ~ReturnedEarly => result.pair = return_score
    /\ ReturnedEarly => ~result.pair /\ result.tier = "none"

(***************************************************************************)
(* Specification of the request query_ollama builds: any "ollama" section  *)
(* of the settings, with or without the nested options map, the top-level  *)
(* temperature and the model.                                              *)
(***************************************************************************)
MaxTemperature == 1

OptionValues == {Num(i) : i \in 0 .. MaxTemperature}

\* the nested "options" maps
NestedOptions ==
    UNION {[D -> OptionValues] : D \in SUBSET {"temperature", "top_p"}}

\* the "ollama" sections: each of "options", "temperature" and "model" is
\* there or not
OllamaSections ==
    {o \in UNION {[D -> OptionValues \cup {Map(f) : f \in NestedOptions}
                             \cup {Str("mistral")}] :
                    D \in SUBSET {"options", "temperature", "model"}} :
        /\ ("options" \in DOMAIN o => IsDict(o["options"]))
        /\ ("temperature" \in DOMAIN o => IsNum(o["temperature"]))
        /\ ("model" \in DOMAIN o => o["model"] = Str("mistral"))}

RequestConfigs ==
    {Map(EmptyMap)} \cup {Map(Put(EmptyMap, "ollama", Map(o))) : o \in OllamaSections}

InitRequest ==
    /\ pc = "query"
    /\ score = Sentinel
    /\ config \in RequestConfigs
    /\ tier = "unset"
    /\ reply \in EndpointReplies
    /\ sent = <<>>
    /\ IdleMerge
    /\ IdleExtract
    /\ IdleMain

NextRequest == Query

SpecRequest == InitRequest /\ [][NextRequest]_vars

\* the "ollama" section of the settings cfg, empty when there is none
OllamaSection(cfg) ==
    IF "ollama" \in DOMAIN cfg.m THEN cfg.m["ollama"].m ELSE EmptyMap

\* the nested options map of the settings cfg, empty when there is none
ConfiguredOptions(cfg) ==
    IF "options" \in DOMAIN OllamaSection(cfg)
    THEN OllamaSection(cfg)["options"].m ELSE EmptyMap

\* the configured options with the top-level temperature, when there is
\* one, set over them
PromotedOptions(cfg) ==
    LET o == OllamaSection(cfg)
        promoted == IF "temperature" \in DOMAIN o THEN {"temperature"} ELSE {}
    IN  [k \in DOMAIN ConfiguredOptions(cfg) \cup promoted |->
            IF k \in promoted THEN o[k] ELSE ConfiguredOptions(cfg)[k]]

\* C13: the request query_ollama sends carries as "options" the configured
\* nested options with "temperature" set to the top-level temperature when
\* that field is present (over a nested one); the field is in the request
\* iff that map is not empty; the call leaves the configured settings as
\* they were.
C13_RequestOptions ==
    [][pc = "query" =>
        /\ Len(sent') = 1
        /\ sent'[1].options = IF PromotedOptions(config) # EmptyMap
                              THEN <<Map(PromotedOptions(config))>> ELSE <<>>
        /\ config' = config]_vars

\* a request was sent with the top-level temperature in place of a
\* different nested one, next to another nested option
C13_Witness ==
    /\ pc = "queried"
    /\ DOMAIN ConfiguredOptions(config) = {"temperature", "top_p"}
    /\ ConfiguredOptions(config)["temperature"] = Num(0)
    /\ "temperature" \in DOMAIN OllamaSection(config)
    /\ OllamaSection(config)["temperature"] = Num(1)
    /\ Len(sent) = 1 /\ Len(sent[1].options) = 1
    /\ sent[1].options[1].m["temperature"] = Num(1)
    /\ sent[1].options[1].m["top_p"] = ConfiguredOptions(config)["top_p"]

(***************************************************************************)
(* The structured records of the log (SpecMain)                            *)
(***************************************************************************)
IsEntry(line) == line.kind = "ENTRY"

\* the "ENTRY {json}" records appended so far
Entries == SelectSeq(log, IsEntry)

\* the record carries the score obtained, the tier, the first line of the
\* extract cut to 200 characters and the extracted sender
EntryOfThisCall(e) ==
    /\ e.score = score
    /\ e.class = tier
    /\ e.subject = Take(FirstLine(extracted.text), PreviewLen)
    /\ e.from = extracted.sender

\* C14 (as stated): every call of classify_message_file has appended, when
\* it returns, exactly one ENTRY record, whose fields are the score
\* obtained, the tier returned, the first line of the extract cut to 200
\* characters and the extracted sender.
C14_AsStated ==
    Returned =>
        /\ Len(Entries) = 1
        /\ EntryOfThisCall(Entries[1].entry)
        /\ Entries[1].entry.class = result.tier

\* C14 (amended): a call appends at most one ENTRY record, and only once it
\* has classified; a call that returns early (missing path, empty
\* extraction) appends none; a call that returns after classifying has made
\* the one best-effort write, so that it appended exactly one record unless
\* a log write failed; the record's fields are the score obtained, the tier
\* returned, the first line of the extract cut to 200 characters and the
\* extracted sender.
C14_EntryOnClassification ==
    /\ Len(Entries) <= 1
    /\ Len(Entries) = 1 =>
          /\ pc \in {"cmf_279", "cmf_281", "print", "done", "raised"}
          /\ EntryOfThisCall(Entries[1].entry)
          /\ (Returned => Entries[1].entry.class = result.tier
                          /\ Entries[1].entry.score = result.score)
    /\ ReturnedEarly => Len(Entries) = 0
    /\ Returned /\ ~ReturnedEarly => Len(Entries) = 1 \/ log_failed

\* a call on the message with the long subject returned red after writing
\* the record, whose subject is the first 200 of the 201 characters
C14_Witness ==
    /\ Returned /\ result.tier = "red"
    /\ Len(Entries) = 1
    /\ Len(FirstLine(extracted.text)) = PreviewLen + 1
    /\ Len(Entries[1].entry.subject) = PreviewLen
    /\ Entries[1].entry.from = <<"a">>

(***************************************************************************)
(* The recursion of deep_merge_config (SpecMerge)                          *)
(***************************************************************************)
\* how deep the maps d and u nest together: the longest run of keys under
\* which both hold a map
RECURSIVE CommonDepth(_, _)
CommonDepth(d, u) ==
    LET nested == {k \in DOMAIN d \cap DOMAIN u : IsDict(d[k]) /\ IsDict(u[k])}
        below == {CommonDepth(d[k].m, u[k].m) : k \in nested}
    IN  IF below = {} THEN 0
        ELSE 1 + (CHOOSE x \in below : \A y \in below : y <= x)

IsDepthWarning(line) == line = DepthWarning

\* the invocation at depth DepthLimit + 1 was reached (in these maps only
\* through the key "a", the one key that is merged key-wise)
BeyondCap == merge_depth(dflt, override, 0) > DepthLimit

\* C15: the merge ends on every pair of finite maps with its recursion no
\* deeper than the maps nest together and never deeper than one level
\* beyond 10; the invocation beyond depth 10 goes no further: it logs the
\* warning and returns the overlay of the override's keys onto the
\* default's at that level, a map under a map replaced wholesale.
C15_DepthCapped ==
    /\ merge_depth(dflt, override, 0) <= DepthLimit + 1
    /\ merge_depth(dflt, override, 0) <= CommonDepth(dflt, override)
    /\ pc = "raised" => BeyondCap /\ log_failed
    /\ pc = "merged" =>
          /\ DOMAIN merged = DOMAIN dflt \cup DOMAIN override
          /\ Len(SelectSeq(log, IsDepthWarning)) = IF BeyondCap THEN 1 ELSE 0
          /\ BeyondCap =>
                LET d == Unwrap(DepthLimit + 1, dflt)
                    u == Unwrap(DepthLimit + 1, override)
                    r == Unwrap(DepthLimit + 1, merged)
                IN  /\ DOMAIN r = DOMAIN d \cup DOMAIN u
                    /\ \A k \in DOMAIN r :
                          r[k] = IF k \in DOMAIN u THEN u[k] ELSE d[k]

\* a merge of maps nested to depth 11 under the key "a" returned after
\* one warning: at that level the default's map under "a" was replaced by
\* the override's, not merged with it
C15_Witness ==
    /\ pc = "merged" /\ BeyondCap
    /\ Len(SelectSeq(log, IsDepthWarning)) = 1
    /\ LET d == Unwrap(DepthLimit + 1, dflt)
           u == Unwrap(DepthLimit + 1, override)
           r == Unwrap(DepthLimit + 1, merged)
       IN  /\ "a" \in DOMAIN d /\ "a" \in DOMAIN u
           /\ IsDict(d["a"]) /\ IsDict(u["a"])
           /\ DOMAIN d["a"].m = {"__circular__"}
           /\ DOMAIN u["a"].m = {"a"}
           /\ r["a"] = u["a"]

====
